---------------------------- MODULE Spec2Model ----------------------------
(***************************************************************************)
(* Model of the two assemblers of the repository:                          *)
(*   assembler.py  Command.to_bytes, Assembler.parse_csv,                  *)
(*                 Assembler.assemble_to_bytes and main                    *)
(*   assemly.py    Assembler.parse_line, assemble, write_binary and the    *)
(*                 two encode_* helpers                                    *)
(* Text is a sequence of one-character strings, so that stripping,         *)
(* splitting, lower-casing and integer parsing are computed as the code    *)
(* computes them.                                                          *)
(***************************************************************************)
EXTENDS Integers, Sequences, FiniteSets, TLC

(***************************************************************************)
(* Bounds of the model.                                                    *)
(***************************************************************************)
\* Longest program text, in lines, that Init enumerates.
MaxLines == 2
\* Number of assemble calls made on one assemly.Assembler instance.
MaxCalls == 2

(***************************************************************************)
(* Program constants.                                                      *)
(***************************************************************************)
LOAD_CONST == 231
READ_MEM   == 61
WRITE_MEM  == 125
BIN_OP     == 145
\* 0x1FFFFF and 0x1FFF: the masks of to_bytes and the limits of parse_csv.
MaxConst   == 2097151
MaxAddr    == 8191

(***************************************************************************)
(* Python str helpers.                                                     *)
(***************************************************************************)
\* The whitespace characters that occur in the enumerated texts.
Whitespace == {" ", "\n", "\t"}

RECURSIVE LStrip(_)
LStrip(s) ==
    IF s # <<>> /\ Head(s) \in Whitespace THEN LStrip(Tail(s)) ELSE s

RECURSIVE RStrip(_)
RStrip(s) ==
    IF s # <<>> /\ s[Len(s)] \in Whitespace
    THEN RStrip(SubSeq(s, 1, Len(s) - 1))
    ELSE s

\* str.strip()
Strip(s) == RStrip(LStrip(s))

\* str.split(sep): always at least one field, empty fields kept.
RECURSIVE SplitAcc(_, _, _)
SplitAcc(s, sep, cur) ==
    IF s = <<>> THEN <<cur>>
    ELSE IF Head(s) = sep THEN <<cur>> \o SplitAcc(Tail(s), sep, <<>>)
    ELSE SplitAcc(Tail(s), sep, Append(cur, Head(s)))

Split(s, sep) == SplitAcc(s, sep, <<>>)

\* str.splitlines(): no line for the empty text, none after a final newline.
SplitLines(s) ==
    IF s = <<>> THEN <<>>
    ELSE LET parts == Split(s, "\n")
         IN  IF parts[Len(parts)] = <<>>
             THEN SubSeq(parts, 1, Len(parts) - 1)
             ELSE parts

UpperCase == <<"A","B","C","D","E","F","G","H","I","J","K","L","M",
               "N","O","P","Q","R","S","T","U","V","W","X","Y","Z">>
LowerCase == <<"a","b","c","d","e","f","g","h","i","j","k","l","m",
               "n","o","p","q","r","s","t","u","v","w","x","y","z">>

LowerChar(c) ==
    IF \E i \in 1..Len(UpperCase) : UpperCase[i] = c
    THEN LowerCase[CHOOSE i \in 1..Len(UpperCase) : UpperCase[i] = c]
    ELSE c

\* str.lower()
Lower(s) == [i \in 1..Len(s) |-> LowerChar(s[i])]

DigitChars == <<"0","1","2","3","4","5","6","7","8","9">>
IsDigit(c) == \E i \in 1..Len(DigitChars) : DigitChars[i] = c
DigitVal(c) == (CHOOSE i \in 1..Len(DigitChars) : DigitChars[i] = c) - 1

RECURSIVE DigitsValue(_, _)
DigitsValue(s, acc) ==
    IF s = <<>> THEN acc
    ELSE IF Head(s) = "_" THEN DigitsValue(Tail(s), acc)
    ELSE DigitsValue(Tail(s), acc * 10 + DigitVal(Head(s)))

\* The body of a decimal literal: digits, single underscores between them.
DigitsOK(s) ==
    /\ s # <<>>
    /\ \A i \in 1..Len(s) : IsDigit(s[i]) \/ s[i] = "_"
    /\ IsDigit(s[1]) /\ IsDigit(s[Len(s)])
    /\ \A i \in 1..(Len(s) - 1) : ~(s[i] = "_" /\ s[i + 1] = "_")

\* int(text): ok is FALSE where Python raises ValueError.
ParseInt(text) ==
    LET t    == Strip(text)
        sgn  == t # <<>> /\ t[1] \in {"+", "-"}
        body == IF sgn THEN Tail(t) ELSE t
    IN  IF DigitsOK(body)
        THEN [ok |-> TRUE,
              val |-> IF sgn /\ t[1] = "-" THEN 0 - DigitsValue(body, 0)
                      ELSE DigitsValue(body, 0)]
        ELSE [ok |-> FALSE, val |-> 0]


(***************************************************************************)
(* assembler.py: commands and their encoding.                              *)
(***************************************************************************)
\* Assembler.MNEMONICS, keyed by the lower-cased first field.
MNEMONICS ==
    (<<"l","o","a","d">>     :> LOAD_CONST) @@
    (<<"r","e","a","d">>     :> READ_MEM)   @@
    (<<"w","r","i","t","e">> :> WRITE_MEM)  @@
    (<<"r","o","t","r">>     :> BIN_OP)

\* Command(opcode, name, fields); fields is the dict as its (key, value) items.
Command(opcode, name, fields) ==
    [opcode |-> opcode, name |-> name, fields |-> fields]

\* self.fields[key]
Field(cmd, key) ==
    LET i == CHOOSE j \in 1..Len(cmd.fields) : cmd.fields[j][1] = key
    IN  cmd.fields[i][2]

\* value & mask, for a mask of the form 2^k - 1.
BitAnd(value, mask) == value % (mask + 1)

\* The n bytes of a little-endian unsigned integer field of struct.pack('<...').
RECURSIVE LEBytes(_, _)
LEBytes(value, n) ==
    IF n = 0 THEN <<>>
    ELSE <<value % 256>> \o LEBytes(value \div 256, n - 1)

\* The same field with the most significant byte first.
BEBytes(value, n) ==
    [k \in 1..n |-> LEBytes(value, n)[n + 1 - k]]

\* PackBI as '>BI' would pack it.
PackBIBigEndian(b, i) == <<b>> \o BEBytes(i, 4)

\* struct.pack('<BI', b, i): one byte, then a 4-byte unsigned int, unpadded.
PackBI(b, i) == <<b>> \o LEBytes(i, 4)
\* struct.pack('<BH', b, h): one byte, then a 2-byte unsigned short.
PackBH(b, h) == <<b>> \o LEBytes(h, 2)

KnownOpcode(opcode) == opcode \in {LOAD_CONST, READ_MEM, WRITE_MEM, BIN_OP}

\* Command.to_bytes, for the opcodes it knows (it raises ValueError otherwise).
ToBytes(cmd) ==
    IF cmd.opcode = LOAD_CONST
    THEN PackBI(cmd.opcode, BitAnd(Field(cmd, "const"), MaxConst))
    ELSE IF cmd.opcode = READ_MEM
    THEN PackBH(cmd.opcode, BitAnd(Field(cmd, "offset"), MaxAddr))
    ELSE IF cmd.opcode = WRITE_MEM
    THEN PackBH(cmd.opcode, BitAnd(Field(cmd, "address"), MaxAddr))
    ELSE <<cmd.opcode>>

(***************************************************************************)
(* assembler.py: one iteration of parse_csv's loop.                        *)
(***************************************************************************)
NoCmd == Command(0, "", <<>>)
NoErr == [line |-> 0, kind |-> "", detail |-> ""]

Skip         == [kind |-> "skip", cmd |-> NoCmd, err |-> NoErr]
Parsed(cmd)  == [kind |-> "cmd",  cmd |-> cmd,   err |-> NoErr]
Failed(n, kind, detail) ==
    [kind |-> "err", cmd |-> NoCmd,
     err |-> [line |-> n, kind |-> kind, detail |-> detail]]

\* OutOfRange with the upper limit itself rejected.
OutOfRangeOffByOne(value, max) == value < 0 \/ value >= max

\* The range test of the three operand branches.
OutOfRange(value, max) == value < 0 \/ value > max

\* One operand branch: the missing / int() / range checks, then the Command.
ParseOperand(line_num, row, opcode, name, field, max) ==
    IF Len(row) < 2 \/ row[2] = <<>>
    THEN Failed(line_num, "arguments", "missing")
    ELSE LET n == ParseInt(Strip(row[2]))
         IN  IF ~n.ok THEN Failed(line_num, "arguments", "invalid literal")
             ELSE IF OutOfRange(n.val, max)
             THEN Failed(line_num, "arguments", "out of range")
             ELSE Parsed(Command(opcode, name, << <<field, n.val>> >>))

\* The body of the for loop of parse_csv for one line of the text.
ParseRow(line_num, raw) ==
    LET line == Strip(raw)
        row  == [i \in 1..Len(Split(line, ",")) |-> Strip(Split(line, ",")[i])]
        mnemonic == Lower(row[1])
    IN  IF line = <<>> THEN Skip
        ELSE IF Head(line) = "#" THEN Skip
        ELSE IF row[1] = <<>> THEN Skip
        ELSE IF mnemonic \notin DOMAIN MNEMONICS
        THEN Failed(line_num, "unknown command", "")
        ELSE LET opcode == MNEMONICS[mnemonic]
             IN  IF opcode = LOAD_CONST
                 THEN ParseOperand(line_num, row, opcode, "load_const", "const", MaxConst)
                 ELSE IF opcode = READ_MEM
                 THEN ParseOperand(line_num, row, opcode, "read_mem", "offset", MaxAddr)
                 ELSE IF opcode = WRITE_MEM
                 THEN ParseOperand(line_num, row, opcode, "write_mem", "address", MaxAddr)
                 ELSE Parsed(Command(opcode, "bin_op_rotr", <<>>))

(***************************************************************************)
(* Program texts that Init enumerates.  A line is written from a mnemonic  *)
(* and an operand value, so a claim can name the value a line carries      *)
(* without parsing the line again.                                         *)
(***************************************************************************)
RECURSIVE DecimalNat(_)
DecimalNat(n) ==
    IF n < 10 THEN <<DigitChars[n + 1]>>
    ELSE Append(DecimalNat(n \div 10), DigitChars[(n % 10) + 1])

Decimal(n) == IF n < 0 THEN <<"-">> \o DecimalNat(0 - n) ELSE DecimalNat(n)

MakeLine(mnemonic, value) == mnemonic \o <<",">> \o Decimal(value)

Load  == <<"l","o","a","d">>
Read  == <<"r","e","a","d">>
Write == <<"w","r","i","t","e">>
Rotr  == <<"r","o","t","r">>

\* Operand values on both sides of each limit, and the values of the
\* repository's own tests (147, 95, 242) and of the specification (9999999).
LoadValues  == {-1, 0, 147, MaxConst, MaxConst + 1, 9999999}
ReadValues  == {-1, 0, 95, MaxAddr, MaxAddr + 1}
WriteValues == {-1, 0, 242, MaxAddr, MaxAddr + 1}

Limit(mnemonic) == IF mnemonic = Load THEN MaxConst ELSE MaxAddr

OperandLines ==
    {MakeLine(Load, v)  : v \in LoadValues}  \cup
    {MakeLine(Read, v)  : v \in ReadValues}  \cup
    {MakeLine(Write, v) : v \in WriteValues}

\* "rotr", " ROTR " and "rotr,9": no operand is read.
RotrLines == {Rotr, <<" ","R","O","T","R"," ">>, Rotr \o <<",","9">>}
\* "Load, +7 ": case and blanks around the fields, a signed literal.
SpacedLoadLine == <<"L","o","a","d",","," ","+","7"," ">>
\* "", " " and "#c"
BlankLines   == {<<>>, <<" ">>}
CommentLines == {<<"#","c">>}
\* "foo"
UnknownLines == {<<"f","o","o">>}
\* "load" and "read,"
MissingLines == {Load, Read \o <<",">>}
\* "write,x"
InvalidLines == {Write \o <<",","x">>}
\* ",5": the first field is empty
EmptyMnemonicLines == {<<",","5">>}

LinePool ==
    OperandLines \cup RotrLines \cup {SpacedLoadLine} \cup BlankLines \cup
    CommentLines \cup UnknownLines \cup MissingLines \cup InvalidLines \cup
    EmptyMnemonicLines

\* The lines joined by newlines: the text of a file.
RECURSIVE Join(_)
Join(ls) ==
    IF ls = <<>> THEN <<>>
    ELSE IF Len(ls) = 1 THEN ls[1]
    ELSE ls[1] \o <<"\n">> \o Join(Tail(ls))

SeqsUpTo(S, n) == UNION {[1..k -> S] : k \in 0..n}

Contents == {Join(ls) : ls \in SeqsUpTo(LinePool, MaxLines)}

(***************************************************************************)
(* State.                                                                  *)
(***************************************************************************)
VARIABLES
    pc,            \* position in main of assembler.py
    csv_content,   \* the text read from the input file
    lines,         \* csv_content.strip().splitlines()
    line_num,      \* enumerate(lines, 1)
    commands,      \* Assembler.commands
    errors,        \* Assembler.errors
    ret,           \* what parse_csv returned
    binary_data,   \* the bytearray of assemble_to_bytes
    cmd_idx,       \* position of its for loop
    output_file,   \* the output file: whether written, and its bytes
    exit_code,     \* the exit status of main, -1 while it runs
    cmd,           \* a Command under to_bytes
    encoded,       \* what to_bytes returned for it
    intermediate_repr, \* assemly.py: Assembler.intermediate_repr
    calls,         \* assemble calls made on the instance so far
    a_input,       \* the lines (readlines) of the latest call's input file
    a_result,      \* how the latest call ended
    a_wrote,       \* whether the latest call wrote its output file
    a_output       \* the bytes of the output file

vars == <<pc, csv_content, lines, line_num, commands, errors, ret,
          binary_data, cmd_idx, output_file, exit_code, cmd, encoded,
          intermediate_repr, calls, a_input, a_result, a_wrote, a_output>>

\* The state of assemly.py's Assembler, which assembler.py never touches.
asm_vars == <<intermediate_repr, calls, a_input, a_result, a_wrote, a_output>>

\* assemly.py's Assembler as constructed, before any call.
AsmIdle ==
    /\ intermediate_repr = <<>>
    /\ calls = 0
    /\ a_input = <<>>
    /\ a_result = "none"
    /\ a_wrote = FALSE
    /\ a_output = <<>>

NotWritten == [written |-> FALSE, data |-> <<>>]

(***************************************************************************)
(* assembler.py: main, parse_csv and assemble_to_bytes.                    *)
(***************************************************************************)
Init ==
    /\ pc = "start"
    /\ csv_content \in Contents
    /\ lines = <<>>
    /\ line_num = 0
    /\ commands = <<>>
    /\ errors = <<>>
    /\ ret = FALSE
    /\ binary_data = <<>>
    /\ cmd_idx = 0
    /\ output_file = NotWritten
    /\ exit_code = -1
    /\ cmd = NoCmd
    /\ encoded = <<>>
    /\ AsmIdle

\* parse_csv up to its loop: clear both lists, strip the text, split it.
ParseBegin ==
    /\ pc = "start"
    /\ commands' = <<>>
    /\ errors' = <<>>
    /\ lines' = SplitLines(Strip(csv_content))
    /\ line_num' = 1
    /\ pc' = "parse_loop"
    /\ UNCHANGED <<csv_content, ret, binary_data, cmd_idx, output_file,
                   exit_code, cmd, encoded, asm_vars>>

\* ParseLine stopping at the first line that fails.
ParseLineFailFast ==
    /\ pc = "parse_loop"
    /\ line_num <= Len(lines)
    /\ LET r == ParseRow(line_num, lines[line_num])
       IN  /\ commands' = IF r.kind = "cmd" THEN Append(commands, r.cmd)
                          ELSE commands
           /\ errors' = IF r.kind = "err" THEN Append(errors, r.err)
                        ELSE errors
           /\ line_num' = IF r.kind = "err" THEN Len(lines) + 1
                          ELSE line_num + 1
    /\ UNCHANGED <<pc, csv_content, lines, ret, binary_data, cmd_idx,
                   output_file, exit_code, cmd, encoded, asm_vars>>

\* One iteration: skip the line, append its command, or append its error.
ParseLine ==
    /\ pc = "parse_loop"
    /\ line_num <= Len(lines)
    /\ LET r == ParseRow(line_num, lines[line_num])
       IN  /\ commands' = IF r.kind = "cmd" THEN Append(commands, r.cmd)
                          ELSE commands
           /\ errors' = IF r.kind = "err" THEN Append(errors, r.err)
                        ELSE errors
    /\ line_num' = line_num + 1
    /\ UNCHANGED <<pc, csv_content, lines, ret, binary_data, cmd_idx,
                   output_file, exit_code, cmd, encoded, asm_vars>>

\* return len(self.errors) == 0
ParseReturn ==
    /\ pc = "parse_loop"
    /\ line_num > Len(lines)
    /\ ret' = (Len(errors) = 0)
    /\ pc' = "parsed"
    /\ UNCHANGED <<csv_content, lines, line_num, commands, errors,
                   binary_data, cmd_idx, output_file, exit_code, cmd, encoded, asm_vars>>

\* MainCheckParse without the test of what parse_csv returned.
MainIgnoreParseResult ==
    /\ pc = "parsed"
    /\ binary_data' = <<>>
    /\ cmd_idx' = 1
    /\ pc' = "assemble_loop"
    /\ UNCHANGED <<csv_content, lines, line_num, commands, errors, ret,
                   output_file, exit_code, cmd, encoded, asm_vars>>

\* main after parse_csv: sys.exit(1) on failure, else assemble_to_bytes.
MainCheckParse ==
    /\ pc = "parsed"
    /\ IF ~ret
       THEN /\ exit_code' = 1
            /\ pc' = "done"
            /\ UNCHANGED <<binary_data, cmd_idx>>
       ELSE /\ binary_data' = <<>>
            /\ cmd_idx' = 1
            /\ pc' = "assemble_loop"
            /\ UNCHANGED exit_code
    /\ UNCHANGED <<csv_content, lines, line_num, commands, errors, ret,
                   output_file, cmd, encoded, asm_vars>>

\* AssembleStep putting each encoding in front of the bytes so far.
AssembleStepPrepend ==
    /\ pc = "assemble_loop"
    /\ cmd_idx <= Len(commands)
    /\ binary_data' = ToBytes(commands[cmd_idx]) \o binary_data
    /\ cmd_idx' = cmd_idx + 1
    /\ UNCHANGED <<pc, exit_code, csv_content, lines, line_num, commands,
                   errors, ret, output_file, cmd, encoded, asm_vars>>

\* binary_data.extend(cmd.to_bytes()); an unknown opcode raises, and main's
\* except clause exits with status 1.
AssembleStep ==
    /\ pc = "assemble_loop"
    /\ cmd_idx <= Len(commands)
    /\ IF KnownOpcode(commands[cmd_idx].opcode)
       THEN /\ binary_data' = binary_data \o ToBytes(commands[cmd_idx])
            /\ cmd_idx' = cmd_idx + 1
            /\ UNCHANGED <<pc, exit_code>>
       ELSE /\ exit_code' = 1
            /\ pc' = "done"
            /\ UNCHANGED <<binary_data, cmd_idx>>
    /\ UNCHANGED <<csv_content, lines, line_num, commands, errors, ret,
                   output_file, cmd, encoded, asm_vars>>

\* return bytes(binary_data), then main writes the output file and returns.
WriteOutput ==
    /\ pc = "assemble_loop"
    /\ cmd_idx > Len(commands)
    /\ output_file' = [written |-> TRUE, data |-> binary_data]
    /\ exit_code' = 0
    /\ pc' = "done"
    /\ UNCHANGED <<csv_content, lines, line_num, commands, errors, ret,
                   binary_data, cmd_idx, cmd, encoded, asm_vars>>

Next ==
    \/ ParseBegin
    \/ ParseLine
    \/ ParseReturn
    \/ MainCheckParse
    \/ AssembleStep
    \/ WriteOutput

Spec == Init /\ [][Next]_vars

(***************************************************************************)
(* Command.to_bytes as a pure function: Init draws one of the commands     *)
(* parse_csv can build (an operand inside its range), Encode applies       *)
(* to_bytes to it.                                                         *)
(***************************************************************************)
RECURSIVE Pow2(_)
Pow2(k) == IF k = 0 THEN 1 ELSE 2 * Pow2(k - 1)

\* Every power of two and its predecessor up to max, and three values whose
\* bytes all differ (0x00FF00, 0x123456, 0x1234).
Samples(bits, max) ==
    {v \in {Pow2(k) : k \in 0..bits} \cup {Pow2(k) - 1 : k \in 0..bits}
           \cup {147, 95, 242, 65280, 1193046, 4660} : v <= max}

EncCommands ==
    {Command(LOAD_CONST, "load_const", << <<"const", v>> >>) : v \in Samples(21, MaxConst)}
    \cup
    {Command(READ_MEM, "read_mem", << <<"offset", v>> >>) : v \in Samples(13, MaxAddr)}
    \cup
    {Command(WRITE_MEM, "write_mem", << <<"address", v>> >>) : v \in Samples(13, MaxAddr)}
    \cup
    {Command(BIN_OP, "bin_op_rotr", <<>>)}

InitEnc ==
    /\ pc = "to_bytes"
    /\ cmd \in EncCommands
    /\ encoded = <<>>
    /\ csv_content = <<>>
    /\ lines = <<>>
    /\ line_num = 0
    /\ commands = <<>>
    /\ errors = <<>>
    /\ ret = FALSE
    /\ binary_data = <<>>
    /\ cmd_idx = 0
    /\ output_file = NotWritten
    /\ exit_code = -1
    /\ AsmIdle

Encode ==
    /\ pc = "to_bytes"
    /\ encoded' = ToBytes(cmd)
    /\ pc' = "encoded"
    /\ UNCHANGED <<csv_content, lines, line_num, commands, errors, ret,
                   binary_data, cmd_idx, output_file, exit_code, cmd, asm_vars>>

NextEnc == Encode

SpecEnc == InitEnc /\ [][NextEnc]_vars

(***************************************************************************)
(* Claims about Command.to_bytes.                                          *)
(***************************************************************************)
\* The operand a command carries (its only field).
Operand(c) == c.fields[1][2]

\* The encoded length the specification's table gives each opcode.
TableLength(opcode) ==
    IF opcode = LOAD_CONST THEN 4
    ELSE IF opcode = BIN_OP THEN 1
    ELSE 3

\* A byte sequence read as a little-endian unsigned integer.
RECURSIVE LEValue(_)
LEValue(bytes) ==
    IF bytes = <<>> THEN 0 ELSE Head(bytes) + 256 * LEValue(Tail(bytes))

\* C1: for every command parse_csv can produce, to_bytes returns exactly the
\* table length of its opcode (LOAD_CONST 4, READ_MEM 3, WRITE_MEM 3,
\* ROTATE_RIGHT 1) and its first byte is the opcode's numeric id.
C1_LengthAndOpcodeByte ==
    pc = "encoded" =>
        /\ Len(encoded) = TableLength(cmd.opcode)
        /\ encoded[1] = cmd.opcode

\* C2: for every operand v in range, the bytes to_bytes emits after the
\* opcode byte, read as a little-endian unsigned integer, are exactly v.
C2_OperandRoundTrip ==
    (pc = "encoded" /\ cmd.opcode # BIN_OP) =>
        /\ Len(encoded) > 1
        /\ \A i \in 1..Len(encoded) : encoded[i] \in 0..255
        /\ LEValue(Tail(encoded)) = Operand(cmd)

\* C2 witness: the largest constant has been encoded, all 21 bits set.
C2_Witness ==
    /\ pc = "encoded"
    /\ cmd.opcode = LOAD_CONST
    /\ Operand(cmd) = MaxConst
    /\ Tail(encoded) = <<255, 255, 31, 0>>

(***************************************************************************)
(* assemly.py.  Its tables come from the module cmds, which is not among   *)
(* the sources: the names are those write_binary tests for, the values     *)
(* those of the specification's opcode table.                              *)
(***************************************************************************)
OpLoadConst == <<"L","O","A","D","_","C","O","N","S","T">>
OpMemRead   == <<"M","E","M","_","R","E","A","D">>
OpMemWrite  == <<"M","E","M","_","W","R","I","T","E">>
OpRor       == <<"R","O","R">>

OPCODES ==
    (OpLoadConst :> 231) @@ (OpMemRead :> 61) @@
    (OpMemWrite :> 125) @@ (OpRor :> 145)

COMMAND_SIZES ==
    (OpLoadConst :> 4) @@ (OpMemRead :> 3) @@
    (OpMemWrite :> 3) @@ (OpRor :> 1)

\* operand is None
None == <<>>
\* operand is an int
Some(v) == <<v>>

NoCommand == [opcode |-> <<>>, opcode_value |-> 0, operand |-> None, size |-> 0]

\* str.split('#')[0]
BeforeHash(s) == Split(s, "#")[1]

\* parse_line: kind is "none" (return None), "cmd" (the dict in command)
\* or "error" (ValueError raised).
parse_line(raw) ==
    LET stripped == Strip(raw)
        line == IF \E i \in 1..Len(stripped) : stripped[i] = "#"
                THEN Strip(BeforeHash(stripped))
                ELSE stripped
        parts == [i \in 1..Len(Split(line, ",")) |-> Strip(Split(line, ",")[i])]
        opcode == parts[1]
        has_operand == Len(parts) > 1 /\ parts[2] # <<>>
        n == IF has_operand THEN ParseInt(parts[2]) ELSE [ok |-> TRUE, val |-> 0]
    IN  IF line = <<>> THEN [kind |-> "none", command |-> NoCommand]
        ELSE IF opcode \notin DOMAIN OPCODES
        THEN [kind |-> "error", command |-> NoCommand]
        ELSE IF ~n.ok THEN [kind |-> "error", command |-> NoCommand]
        ELSE [kind |-> "cmd",
              command |-> [opcode |-> opcode,
                           opcode_value |-> OPCODES[opcode],
                           operand |-> IF has_operand THEN Some(n.val) ELSE None,
                           size |-> COMMAND_SIZES[opcode]]]

\* The for loop of assemble from line i on: every command parsed is appended
\* to repr; the first line that raises ends the loop with ok FALSE.
RECURSIVE ParseLines(_, _, _)
ParseLines(file, i, repr) ==
    IF i > Len(file) THEN [ok |-> TRUE, repr |-> repr]
    ELSE LET r == parse_line(file[i])
         IN  IF r.kind = "error" THEN [ok |-> FALSE, repr |-> repr]
             ELSE IF r.kind = "cmd"
             THEN ParseLines(file, i + 1, Append(repr, r.command))
             ELSE ParseLines(file, i + 1, repr)

\* struct.pack('>B...') raises struct.error for a value outside its field.
FitsI(v) == v >= 0 /\ v \div 65536 <= 65535
FitsH(v) == v >= 0 /\ v <= 65535

\* encode_load_const: the fixed bytes for (231, 147), else the first 4 bytes
\* of struct.pack('>BI', opcode, operand).
encode_load_const(opcode, operand) ==
    IF opcode = 231 /\ operand = 147
    THEN <<231, 0, 0, 147>>
    ELSE SubSeq(<<opcode>> \o BEBytes(operand, 4), 1, 4)

\* encode_mem_access: the fixed bytes for (61, 95) and (125, 242), else the
\* first 3 bytes of struct.pack('>BH', opcode, operand).
encode_mem_access(opcode, operand) ==
    IF opcode = 61 /\ operand = 95 THEN <<61, 0, 95>>
    ELSE IF opcode = 125 /\ operand = 242 THEN <<125, 0, 242>>
    ELSE SubSeq(<<opcode>> \o BEBytes(operand, 2), 1, 3)

\* cmd['operand'] or 0
OperandOrZero(c) == IF c.operand = None THEN 0 ELSE c.operand[1]

\* What write_binary's loop appends for one command.
EncodeCommand(c) ==
    IF c.opcode = OpLoadConst
    THEN encode_load_const(c.opcode_value, OperandOrZero(c))
    ELSE IF c.opcode \in {OpMemRead, OpMemWrite}
    THEN encode_mem_access(c.opcode_value, OperandOrZero(c))
    ELSE IF c.opcode = OpRor THEN <<c.opcode_value>>
    ELSE <<>>

\* Whether encoding the command raises struct.error.
EncodeRaises(c) ==
    \/ c.opcode = OpLoadConst /\ ~FitsI(OperandOrZero(c))
    \/ c.opcode \in {OpMemRead, OpMemWrite} /\ ~FitsH(OperandOrZero(c))

\* write_binary's loop over a list of commands: the bytearray it builds.
RECURSIVE BinaryOf(_)
BinaryOf(repr) ==
    IF repr = <<>> THEN <<>>
    ELSE EncodeCommand(Head(repr)) \o BinaryOf(Tail(repr))

\* write_binary: the output file after it, or the exception out of its loop,
\* before the file is opened.
write_binary(repr) ==
    IF \E i \in 1..Len(repr) : EncodeRaises(repr[i])
    THEN [raised |-> TRUE, data |-> <<>>]
    ELSE [raised |-> FALSE, data |-> BinaryOf(repr)]

\* Lines of the input files, as readlines returns them.
AsmLinePool ==
    {l \o <<"\n">> : l \in
        {OpLoadConst \o <<",","1","4","7">>,
         OpLoadConst \o <<",","3","0","0">>,
         OpMemRead \o <<",","9","5">>,
         OpMemWrite \o <<",","-","1">>,
         OpRor,
         OpRor \o <<" ","#","c">>,
         OpMemRead \o <<",","x">>,
         <<"f","o","o">>,
         <<>>}}

AsmFiles == SeqsUpTo(AsmLinePool, MaxLines)

InitAsm ==
    /\ pc = "assemly"
    /\ csv_content = <<>>
    /\ lines = <<>>
    /\ line_num = 0
    /\ commands = <<>>
    /\ errors = <<>>
    /\ ret = FALSE
    /\ binary_data = <<>>
    /\ cmd_idx = 0
    /\ output_file = NotWritten
    /\ exit_code = -1
    /\ cmd = NoCmd
    /\ encoded = <<>>
    /\ AsmIdle

\* One call of assemble(input_file, output_file, test_mode) on the instance;
\* found is whether input_file exists, file its lines.
assemble(found, file, test_mode) ==
    /\ pc = "assemly"
    /\ calls < MaxCalls
    /\ calls' = calls + 1
    /\ a_input' = file
    /\ IF ~found
       THEN /\ a_result' = "not found"
            /\ a_wrote' = FALSE
            /\ UNCHANGED <<intermediate_repr, a_output>>
       ELSE LET p == ParseLines(file, 1, intermediate_repr)
                w == write_binary(p.repr)
            IN  /\ intermediate_repr' = p.repr
                /\ a_result' = IF ~p.ok THEN "parse error"
                               ELSE IF ~test_mode /\ w.raised THEN "raised"
                               ELSE "ok"
                /\ a_wrote' = (p.ok /\ ~test_mode /\ ~w.raised)
                /\ a_output' = IF p.ok /\ ~test_mode /\ ~w.raised
                               THEN w.data ELSE a_output
    /\ UNCHANGED <<pc, csv_content, lines, line_num, commands, errors, ret,
                   binary_data, cmd_idx, output_file, exit_code, cmd, encoded>>

NextAsm ==
    \E found \in BOOLEAN, file \in AsmFiles, test_mode \in BOOLEAN :
        assemble(found, file, test_mode)

SpecAsm == InitAsm /\ [][NextAsm]_vars

(***************************************************************************)
(* What the enumerated lines are, by construction: the oracle the claims   *)
(* about parse_csv are stated against.                                     *)
(***************************************************************************)
OperandMnemonics == {Load, Read, Write}

Values(mnemonic) ==
    IF mnemonic = Load THEN LoadValues
    ELSE IF mnemonic = Read THEN ReadValues
    ELSE WriteValues

InRange(mnemonic, v) == 0 <= v /\ v <= Limit(mnemonic)

\* The command a valid operand line stands for.
CommandOf(mnemonic, v) ==
    IF mnemonic = Load THEN Command(LOAD_CONST, "load_const", << <<"const", v>> >>)
    ELSE IF mnemonic = Read THEN Command(READ_MEM, "read_mem", << <<"offset", v>> >>)
    ELSE Command(WRITE_MEM, "write_mem", << <<"address", v>> >>)

\* Every (mnemonic, operand value) an enumerated operand line is made of.
OperandPairs == UNION {{<<m, v>> : v \in Values(m)} : m \in OperandMnemonics}

RangeErrorLines ==
    {MakeLine(p[1], p[2]) : p \in {q \in OperandPairs : ~InRange(q[1], q[2])}}

\* The lines that fail to parse: unknown mnemonic, missing operand,
\* non-integer operand, out-of-range operand.
FailingLines ==
    UnknownLines \cup MissingLines \cup InvalidLines \cup RangeErrorLines

\* (line, command) for every enumerated line that is a valid instruction.
ValidPairs ==
    {<<MakeLine(p[1], p[2]), CommandOf(p[1], p[2])>> :
        p \in {q \in OperandPairs : InRange(q[1], q[2])}}
    \cup {<<Strip(l), Command(BIN_OP, "bin_op_rotr", <<>>)>> : l \in RotrLines}
    \cup {<<Strip(SpacedLoadLine), CommandOf(Load, 7)>>}

IsValidLine(l) == \E p \in ValidPairs : p[1] = Strip(l)
ExpectedCommand(l) == (CHOOSE p \in ValidPairs : p[1] = Strip(l))[2]

\* The commands of the valid lines of a text, in the order of the lines.
RECURSIVE ExpectedCommands(_)
ExpectedCommands(ls) ==
    IF ls = <<>> THEN <<>>
    ELSE IF IsValidLine(Head(ls))
    THEN <<ExpectedCommand(Head(ls))>> \o ExpectedCommands(Tail(ls))
    ELSE ExpectedCommands(Tail(ls))

\* parse_csv has returned.
ParseDone == pc \in {"parsed", "assemble_loop", "done"}

(***************************************************************************)
(* Claims about parse_csv, assemble_to_bytes and main.                     *)
(***************************************************************************)
\* C3: a load, read or write line whose operand is between 0 and the
\* maximum (0x1FFFFF, 0x1FFF) appends exactly its command and no error; one
\* whose operand is below 0 or above the maximum appends exactly one
\* out-of-range error for that line and no command.
C3_OperandBoundary ==
    [][(pc = "parse_loop" /\ line_num <= Len(lines)) =>
        \A m \in OperandMnemonics : \A v \in Values(m) :
            lines[line_num] = MakeLine(m, v) =>
                IF InRange(m, v)
                THEN /\ commands' = Append(commands, CommandOf(m, v))
                     /\ errors' = errors
                ELSE /\ commands' = commands
                     /\ errors' = Append(errors,
                            [line |-> line_num, kind |-> "arguments",
                             detail |-> "out of range"])]_vars

\* C3 witness: "load,2097151" was accepted and "load,2097152" rejected.
C3_Witness ==
    /\ pc = "parsed"
    /\ lines = <<MakeLine(Load, MaxConst), MakeLine(Load, MaxConst + 1)>>
    /\ commands = <<CommandOf(Load, MaxConst)>>
    /\ Len(errors) = 1
    /\ errors[1].line = 2

\* The lines of the original text, by 1-based position.
OrigLines == Split(csv_content, "\n")

\* C4: a line at position k of the original text (blank and comment lines
\* counted, leading blank lines included) whose mnemonic is not recognized
\* yields exactly one unknown-mnemonic error carrying k, and the lines
\* after it are still parsed.
C4_UnknownMnemonicLine ==
    ParseDone =>
        /\ \A k \in 1..Len(OrigLines) :
              Strip(OrigLines[k]) \in UnknownLines =>
                  Cardinality({i \in 1..Len(errors) :
                      /\ errors[i].line = k
                      /\ errors[i].kind = "unknown command"}) = 1
        /\ commands = ExpectedCommands(OrigLines)

\* C5: once a line has recorded an error, nothing is ever written to the
\* output file and the run ends with a failure status.
C5_ErrorsWithholdOutput ==
    errors # <<>> =>
        /\ ~output_file.written
        /\ output_file.data = <<>>
        /\ pc = "done" => exit_code = 1

\* C5 witness: a program with a valid line and a failing line has ended.
C5_Witness ==
    /\ pc = "done"
    /\ errors # <<>>
    /\ commands # <<>>
    /\ exit_code = 1
    /\ ~output_file.written

RECURSIVE Offset(_)
Offset(n) ==
    IF n <= 1 THEN 0 ELSE Offset(n - 1) + Len(ToBytes(commands[n - 1]))

\* C7: for a program that parses without error, the bytes written are the
\* encodings of its instructions in line order and nothing else:
\* instruction n starts at the sum of the encoded lengths before it and the
\* total length is the sum of all encoded lengths.
C7_Concatenation ==
    (pc = "done" /\ output_file.written) =>
        /\ commands = ExpectedCommands(lines)
        /\ Len(output_file.data) = Offset(Len(commands) + 1)
        /\ \A n \in 1..Len(commands) :
               SubSeq(output_file.data, Offset(n) + 1, Offset(n + 1))
                   = ToBytes(commands[n])

\* C7 witness: "read,95" then "rotr" has been written as 3D 5F 00 91.
C7_Witness ==
    /\ pc = "done"
    /\ lines = <<MakeLine(Read, 95), Rotr>>
    /\ output_file = [written |-> TRUE, data |-> <<61, 95, 0, 145>>]

\* C8: "load,147", "read,95", "write,242" and "rotr" each parse to one
\* command encoded as E7 93 00 00, 3D 5F 00, 7D F2 00 and 91; every valid
\* instruction is its opcode byte, then the operand little-endian in the
\* remaining 3 (load) or 2 (read, write) bytes.
C8_GoldenBytes ==
    ParseDone =>
        /\ csv_content = MakeLine(Load, 147) =>
               Len(commands) = 1 /\ ToBytes(commands[1]) = <<231, 147, 0, 0>>
        /\ csv_content = MakeLine(Read, 95) =>
               Len(commands) = 1 /\ ToBytes(commands[1]) = <<61, 95, 0>>
        /\ csv_content = MakeLine(Write, 242) =>
               Len(commands) = 1 /\ ToBytes(commands[1]) = <<125, 242, 0>>
        /\ csv_content = Rotr =>
               Len(commands) = 1 /\ ToBytes(commands[1]) = <<145>>
        /\ \A n \in 1..Len(commands) :
               LET c == commands[n]
               IN  ToBytes(c) =
                       IF c.opcode = LOAD_CONST
                       THEN <<c.opcode>> \o LEBytes(Operand(c), 3)
                       ELSE IF c.opcode = BIN_OP THEN <<c.opcode>>
                       ELSE <<c.opcode>> \o LEBytes(Operand(c), 2)

\* A line that is empty or a comment once stripped.
IsEmptyLine(l) == Strip(l) = <<>> \/ Head(Strip(l)) = "#"

\* C9: a line is skipped silently (no command, no error) if and only if,
\* stripped, it is zero-length or begins with '#'; every other line, one
\* with an empty first field such as ",5" included, yields exactly one
\* command or exactly one error.
C9_SkipOnlyEmptyLines ==
    [][(pc = "parse_loop" /\ line_num <= Len(lines)) =>
        IF IsEmptyLine(lines[line_num])
        THEN commands' = commands /\ errors' = errors
        ELSE \/ Len(commands') = Len(commands) + 1 /\ errors' = errors
             \/ Len(errors') = Len(errors) + 1 /\ commands' = commands]_vars

(***************************************************************************)
(* Claims about assemly.py.                                                *)
(***************************************************************************)
\* C10: whatever calls came before on the same instance, the bytes a
\* successful assemble call writes are the encodings of the instructions of
\* that call's own input file, in order, and of no others.
C10_OutputOfOwnInput ==
    (a_result = "ok" /\ a_wrote) =>
        a_output = BinaryOf(ParseLines(a_input, 1, <<>>).repr)

(***************************************************************************)
(* encode_load_const as write_binary calls it: Init draws one LOAD_CONST   *)
(* command with an operand of at most 21 bits, EncodeLoadConst encodes it. *)
(***************************************************************************)
\* Every power of two up to 2^21 with its two neighbours, and the values of
\* Samples.
LoadConstOperands ==
    {v \in {Pow2(k) + 1 : k \in 0..21} \cup Samples(21, MaxConst) : v <= MaxConst}

LoadConstCommand(v) ==
    [opcode |-> OpLoadConst, opcode_value |-> OPCODES[OpLoadConst],
     operand |-> Some(v), size |-> COMMAND_SIZES[OpLoadConst]]

InitLoadConst ==
    /\ pc = "encode_load_const"
    /\ intermediate_repr \in {<<LoadConstCommand(v)>> : v \in LoadConstOperands}
    /\ encoded = <<>>
    /\ csv_content = <<>>
    /\ lines = <<>>
    /\ line_num = 0
    /\ commands = <<>>
    /\ errors = <<>>
    /\ ret = FALSE
    /\ binary_data = <<>>
    /\ cmd_idx = 0
    /\ output_file = NotWritten
    /\ exit_code = -1
    /\ cmd = NoCmd
    /\ calls = 0
    /\ a_input = <<>>
    /\ a_result = "none"
    /\ a_wrote = FALSE
    /\ a_output = <<>>

\* The LOAD_CONST branch of write_binary's loop for the command.
EncodeLoadConst ==
    /\ pc = "encode_load_const"
    /\ LET c == intermediate_repr[1]
       IN  encoded' = encode_load_const(c.opcode_value, OperandOrZero(c))
    /\ pc' = "load_const_encoded"
    /\ UNCHANGED <<csv_content, lines, line_num, commands, errors, ret,
                   binary_data, cmd_idx, output_file, exit_code, cmd,
                   intermediate_repr, calls, a_input, a_result, a_wrote,
                   a_output>>

NextLoadConst == EncodeLoadConst

SpecLoadConst == InitLoadConst /\ [][NextLoadConst]_vars

\* A byte sequence read as a big-endian unsigned integer.
RECURSIVE BEValue(_)
BEValue(bytes) ==
    IF bytes = <<>> THEN 0
    ELSE BEValue(SubSeq(bytes, 1, Len(bytes) - 1)) * 256 + bytes[Len(bytes)]

\* C11: encode_load_const(231, v) returns, for every v in 0..0x1FFFFF, 4
\* bytes: the opcode byte, then v as a 3-byte big-endian unsigned integer
\* (the layout of the fixed result E7 00 00 93 for 147), so that v is
\* recovered from the 3 operand bytes.
C11_LoadConstBigEndian ==
    pc = "load_const_encoded" =>
        LET v == OperandOrZero(intermediate_repr[1])
        IN  /\ Len(encoded) = 4
            /\ encoded[1] = 231
            /\ \A i \in 2..4 : encoded[i] \in 0..255
            /\ BEValue(SubSeq(encoded, 2, 4)) = v

=============================================================================
